---- MODULE Spec2Model ----
(***************************************************************************)
(* State-machine model of the Quantum-Authentication front end:            *)
(*   App            (frontend/src/app.js)          session holder          *)
(*   Login/Register (components/Login.jsx, and the second Register of      *)
(*                   unnamed/part_000)             orchestrators           *)
(*   WebcamCapture  (components/WebcamCapture.jsx) capture resource        *)
(*   ApiService     (readme.md)                    session client          *)
(*                                                                         *)
(* React semantics used throughout:                                        *)
(*  - a handler closes over the state values of the render that created    *)
(*    it; an effect with dependency list [] keeps the closures of the      *)
(*    first render;                                                        *)
(*  - a conditionally rendered child is unmounted when its condition turns *)
(*    false and a later mount is a new instance with fresh state;          *)
(*  - a ref to a DOM node is null once the node is unmounted;              *)
(*  - a state setter called on an unmounted instance changes nothing.      *)
(***************************************************************************)
EXTENDS Integers, Sequences, FiniteSets, TLC

(* ---------------- bounds of the exploration ---------------- *)
\* WebcamCapture instances mounted during one run
MaxCams == 1
\* WebcamCapture instances mounted during one run of SpecLeak, which looks
\* for two streams held at once
LeakCams == 2
\* Login/Register instances mounted during one run
MaxInst == 1
\* account deletions awaiting their response at a time
MaxDeletes == 1
\* ApiService calls that may be in flight at once, and in all
MaxCalls == 2
MaxInvocations == 3

(* ---------------- values ---------------- *)
\* JavaScript null / undefined
Null == "null"
Undefined == "<undefined>"

\* tokens the service may issue; "" is an empty token
Tokens == {"tok-1", "tok-2"}
EnvelopeTokens == Tokens \cup {"", Undefined}
Profiles == {"alice"}

\* values typed into the form fields ("" is the initial value of each)
Usernames == {"ab", "alice"}
Emails == {<<"a", "@", "b", ".", "c">>}
\* typed e-mail values that are no address: no dot after the @, and
\* white space where the local part should be
BadEmails == {<<"a", "@", "b">>, <<" ", "@", "b", ".", "c">>}
Passwords == {"short", "password1"}

\* canvas.toDataURL of a frame with pixels, and of a 0 x 0 canvas
FrameImage == "data:image/jpeg"
BlankImage == "data:,"

\* service messages carried by a failure envelope or an Error
Messages == {"invalid credentials", ""}

VARIABLES
    \* ---- App (app.js 8-55)
    view, user, token, storage, systemHealth,
    healthPending, healthIssued, getUserPending, unhandled,
    \* ---- Dashboard, the one with account deletion (app.js 382-455):
    \*      its confirmation dialog, its pending DELETE calls and the
    \*      alerts shown by the last run of handleDeleteAccount
    showDeleteConfirm, deletePending, alerts,
    \* ---- the Register component the build imports ("mandatory" is the
    \*      one in Login.jsx, "optional" the one in unnamed/part_000)
    variant,
    \* ---- mounted orchestrator instance (Login.jsx 8-15, 164-176)
    inst, formData, faceImage, fingerprintData, showWebcam, loading,
    error, step, fingerprintScanning,
    \* ---- asynchronous work owned by orchestrator instances
    fpTimers, submitReqs,
    \* ---- WebcamCapture instances, in mount order (WebcamCapture.jsx 5-9)
    cams,
    \* ---- history: the outcome of the last register/login call handled
    lastEnvelope,
    \* ---- ApiService (readme.md 406-483): the calls in flight, the number
    \*      of operations invoked and of fetch() calls made, and the last
    \*      call settled
    apiCalls, apiInvoked, apiFetched, apiSettled

dashVars == <<showDeleteConfirm, deletePending, alerts>>
appVars == <<view, user, token, storage, systemHealth,
             healthPending, healthIssued, getUserPending, unhandled,
             dashVars>>
orchVars == <<inst, formData, faceImage, fingerprintData, showWebcam,
              loading, error, step, fingerprintScanning>>
asyncVars == <<fpTimers, submitReqs>>
clientVars == <<apiCalls, apiInvoked, apiFetched, apiSettled>>
vars == <<appVars, variant, orchVars, asyncVars, cams, lastEnvelope,
          clientVars>>

\* JavaScript truthiness of a string-or-null value
Truthy(v) == v \notin {Null, Undefined, ""}

(***************************************************************************)
(* WebcamCapture                                                           *)
(***************************************************************************)
\* Fields of one instance:
\*   mounted    the component (and so videoRef/canvasRef) is attached
\*   acq        the getUserMedia promise: "pending", "granted", "denied"
\*   stream     the `stream` state as last rendered is non-null
\*   live       the acquired MediaStream has tracks that were not stopped
\*   error      the `error` state
\*   countdown  the `countdown` state: <<>> for null, <<n>> for a number
\*   timer      the setInterval of handleCapture is scheduled
\*   count      its closure variable `count`: <<>> before handleCapture
\*              declares it, <<n>> after
\*   tstream    `stream` as seen by the closures of the render that
\*              created the interval callback (handleCapture, captureImage)
\*   delivered  calls of onCapture made by this instance
\*   cancelled  the parent's onCancel unmounted this instance
CountdownStart == 3

NewCam ==
    [mounted |-> TRUE, acq |-> "pending", stream |-> FALSE, live |-> FALSE,
     error |-> "", countdown |-> <<>>, timer |-> FALSE, count |-> <<>>,
     tstream |-> FALSE, delivered |-> 0, cancelled |-> FALSE]

\* stopWebcam as called from a closure whose `stream` is `closureStream`
stopWebcam(c, closureStream) ==
    IF closureStream THEN [c EXCEPT !.live = FALSE] ELSE c

\* the cleanup of the mount effect: stopWebcam of the first render, whose
\* `stream` is the initial state null
EffectCleanup(c) == stopWebcam(c, FALSE)

\* React unmounts the instance: the cleanup runs, the refs are detached and
\* the component's state (stream, error, countdown) is discarded; what
\* outlives it is the promise of getUserMedia, the MediaStream and the
\* interval with the closures it holds
Unmount(c) ==
    [EffectCleanup(c) EXCEPT !.mounted = FALSE, !.stream = FALSE,
                             !.error = "", !.countdown = <<>>]

CamMounted == Len(cams) > 0 /\ cams[Len(cams)].mounted
cur == Len(cams)

\* the sequence of instances after the mounted one (if any) is unmounted
CamsUnmounted(cs) ==
    IF Len(cs) > 0 /\ cs[Len(cs)].mounted
    THEN [cs EXCEPT ![Len(cs)] = Unmount(cs[Len(cs)])]
    ELSE cs

\* a new instance is mounted; its effect calls startWebcam
CamsMounted(cs) == Append(cs, NewCam)

\* (mutant) captureImage without its test of the refs
RefsIgnored(c) == TRUE

\* captureImage's test `video && canvas`: both refs point at mounted nodes
RefsAttached(c) == c.mounted

\* canvas.toDataURL after drawing the video: a frame once a stream is
\* attached to the video element, the empty image of a 0 x 0 canvas before
ImageOf(c) == IF c.stream THEN FrameImage ELSE BlankImage

\* the body of captureImage's if: stopWebcam(), then onCapture(imageData)
captureImage(c) ==
    [stopWebcam(c, c.tstream) EXCEPT !.delivered = @ + 1]

(***************************************************************************)
(* App                                                                     *)
(***************************************************************************)
\* localStorage.setItem stores String(value)
StoredForm(t) == IF t = Undefined THEN "undefined" ELSE t

NoRequests == [t \in Tokens |-> 0]

\* (mutant) a probe made by the first run of the effect only
EffectHealthOnce(n) == IF n = 0 THEN 1 ELSE n

\* the effect of app.js 14-34, run with the token of the committed render:
\* one checkHealth call and, for a truthy token, one getUser call
EffectHealthIssued(n) == n + 1
EffectGetUser(pending, t) ==
    IF Truthy(t) THEN [pending EXCEPT ![t] = @ + 1] ELSE pending

\* the effect runs after a render in which `token` changed
RunEffect(oldToken, newToken) ==
    IF newToken # oldToken
    THEN /\ healthIssued' = EffectHealthIssued(healthIssued)
         /\ healthPending' = healthPending + 1
         /\ getUserPending' = EffectGetUser(getUserPending, newToken)
    ELSE UNCHANGED <<healthIssued, healthPending, getUserPending>>

\* which orchestrator App renders (app.js 212-218)
OrchMounted == ~Truthy(user) /\ view \in {"login", "register"}
IsLogin == OrchMounted /\ view = "login"
IsRegister == OrchMounted /\ view = "register"
\* stage of the mounted orchestrator
Submitting == OrchMounted /\ loading
CollectingBiometrics ==
    OrchMounted /\ ~loading /\ (view = "register" => step = 2)

EmptyForm ==
    [username |-> "", email |-> <<>>, password |-> "", confirmPassword |-> ""]

\* useState initial values of Login / Register
OrchInitial ==
    /\ formData' = EmptyForm
    /\ faceImage' = Null
    /\ fingerprintData' = Null
    /\ showWebcam' = FALSE
    /\ loading' = FALSE
    /\ error' = ""
    /\ step' = 1
    /\ fingerprintScanning' = FALSE

\* App stops rendering the orchestrator: its state is gone and its
\* WebcamCapture child, if any, is unmounted
OrchUnmounted ==
    /\ OrchInitial
    /\ inst' = inst
    /\ cams' = CamsUnmounted(cams)

\* App renders another orchestrator: a new instance
OrchReplaced ==
    /\ OrchInitial
    /\ inst' = inst + 1
    /\ cams' = CamsUnmounted(cams)

\* no register/login envelope was handled yet
NoEnvelope ==
    [handled |-> FALSE, success |-> FALSE, data |-> Undefined,
     token |-> Undefined]

\* ---- ApiService: what the network can answer to one fetch()
\* the operations of ApiService (readme.md 440-479)
Operations == {"checkHealth", "register", "login", "getUser",
               "updateBiometrics"}

\* the message of the TypeError a failed fetch() rejects with, and of the
\* SyntaxError response.json() rejects with on a body that is not JSON
FetchError == "Failed to fetch"
ParseError == "Unexpected token < in JSON"

\* a body that carries no envelope
NoData == [success |-> FALSE, message |-> Undefined]

\* the envelopes a service answers with: `message` may be missing
Envelopes == [success : BOOLEAN, message : Messages \cup {Undefined}]

\* the outcomes of one fetch(): no response, a response whose body is not
\* JSON, or a response with an envelope; `ok` is response.ok (status 2xx)
Outcomes ==
    {[net |-> "failed", ok |-> FALSE, data |-> NoData]}
    \cup [net : {"unparsable"}, ok : BOOLEAN, data : {NoData}]
    \cup [net : {"json"}, ok : BOOLEAN, data : Envelopes]

\* how a call settles: it throws an Error with `message`, or returns `data`
Thrown(m) == [thrown |-> TRUE, message |-> m, data |-> NoData]
Returned(d) == [thrown |-> FALSE, message |-> Undefined, data |-> d]

\* no call was settled yet
NothingSettled ==
    [op |-> Null, outcome |-> [net |-> "failed", ok |-> FALSE, data |-> NoData],
     result |-> Returned(NoData)]

Init ==
    /\ view = "home"
    /\ user = Null
    /\ storage \in {Null} \cup Tokens
    /\ token = storage
    /\ systemHealth = Null
    /\ healthIssued = EffectHealthIssued(0)
    /\ healthPending = 1
    /\ getUserPending = EffectGetUser(NoRequests, token)
    /\ unhandled = FALSE
    /\ showDeleteConfirm = FALSE
    /\ deletePending = 0
    /\ alerts = <<>>
    /\ variant \in {"mandatory", "optional"}
    /\ inst = 0
    /\ formData = EmptyForm
    /\ faceImage = Null
    /\ fingerprintData = Null
    /\ showWebcam = FALSE
    /\ loading = FALSE
    /\ error = ""
    /\ step = 1
    /\ fingerprintScanning = FALSE
    /\ fpTimers = [i \in 1..MaxInst |-> 0]
    /\ submitReqs = <<>>
    /\ cams = <<>>
    /\ lastEnvelope = NoEnvelope
    /\ apiCalls = <<>>
    /\ apiInvoked = 0
    /\ apiFetched = 0
    /\ apiSettled = NothingSettled

\* header buttons and "Get Started" (app.js 72-107, 202-207)
SetView(v) ==
    /\ ~Truthy(user)
    /\ v # view
    /\ view' = v
    /\ IF v \in {"login", "register"}
       THEN inst < MaxInst /\ OrchReplaced
       ELSE OrchUnmounted
    /\ UNCHANGED <<user, token, storage, systemHealth, healthPending,
                   healthIssued, getUserPending, unhandled, dashVars,
                   variant, clientVars, asyncVars, lastEnvelope>>

\* (mutant) a success handler that adopts the session without persisting it
handleLoginSuccessUnsaved(userData, userToken) ==
    /\ user' = userData
    /\ token' = userToken
    /\ storage' = storage
    /\ view' = "dashboard"
    /\ RunEffect(token, userToken)

\* (mutant) a success handler that leaves the view where it was
handleLoginSuccessStaying(userData, userToken) ==
    /\ user' = userData
    /\ token' = userToken
    /\ storage' = StoredForm(userToken)
    /\ view' = view
    /\ RunEffect(token, userToken)

\* handleRegisterSuccess / handleLoginSuccess (app.js 36-48)
handleLoginSuccess(userData, userToken) ==
    /\ user' = userData
    /\ token' = userToken
    /\ storage' = StoredForm(userToken)
    /\ view' = "dashboard"
    /\ RunEffect(token, userToken)

\* (mutant) a logout that forgets localStorage.removeItem
handleLogoutKeepingStorage ==
    /\ Truthy(user)
    /\ user' = Null
    /\ token' = Null
    /\ storage' = storage
    /\ view' = "home"
    /\ RunEffect(token, Null)
    /\ showDeleteConfirm' = FALSE
    /\ UNCHANGED <<systemHealth, unhandled, deletePending, alerts, variant, clientVars,
                   orchVars, asyncVars, cams, lastEnvelope>>

\* handleLogout (app.js 50-55), from the header button shown when `user`
handleLogout ==
    /\ Truthy(user)
    /\ user' = Null
    /\ token' = Null
    /\ storage' = Null
    /\ view' = "home"
    /\ RunEffect(token, Null)
    /\ showDeleteConfirm' = FALSE
    /\ UNCHANGED <<systemHealth, unhandled, deletePending, alerts, variant, clientVars,
                   orchVars, asyncVars, cams, lastEnvelope>>

\* (mutant) a failed probe that ends the session
HealthResponseEvicting(ok) ==
    /\ healthPending > 0
    /\ healthPending' = healthPending - 1
    /\ systemHealth' = IF ok THEN "health" ELSE systemHealth
    /\ IF ok THEN UNCHANGED <<token, storage>>
       ELSE token' = Null /\ storage' = Null
    /\ UNCHANGED <<view, user, healthIssued, getUserPending,
                   unhandled, dashVars, variant, clientVars, orchVars,
                   asyncVars, cams, lastEnvelope>>

\* checkHealth resolves (readme.md 440-447; app.js 16-20)
HealthResponse(ok) ==
    /\ healthPending > 0
    /\ healthPending' = healthPending - 1
    /\ systemHealth' = IF ok THEN "health" ELSE systemHealth
    /\ UNCHANGED <<view, user, token, storage, healthIssued, getUserPending,
                   unhandled, dashVars, variant, clientVars, orchVars, asyncVars, cams,
                   lastEnvelope>>

\* (mutant) a profile adopted without showing the dashboard
GetUserSuccessStaying(t, data) ==
    /\ getUserPending[t] > 0
    /\ getUserPending' = [getUserPending EXCEPT ![t] = @ - 1]
    /\ user' = data
    /\ OrchUnmounted
    /\ UNCHANGED <<view, token, storage, systemHealth, healthPending,
                   healthIssued, unhandled, dashVars, variant, clientVars,
                   asyncVars, lastEnvelope>>

\* getUser(t) resolves with success:true (app.js 24-27)
GetUserSuccess(t, data) ==
    /\ getUserPending[t] > 0
    /\ getUserPending' = [getUserPending EXCEPT ![t] = @ - 1]
    /\ user' = data
    /\ view' = "dashboard"
    /\ OrchUnmounted
    /\ UNCHANGED <<token, storage, systemHealth, healthPending, healthIssued,
                   unhandled, dashVars, variant, clientVars, asyncVars, lastEnvelope>>

\* getUser(t) resolves with success:false (app.js 28-31)
GetUserFailure(t) ==
    /\ getUserPending[t] > 0
    /\ storage' = Null
    /\ token' = Null
    /\ IF token # Null
       THEN /\ healthIssued' = EffectHealthIssued(healthIssued)
            /\ healthPending' = healthPending + 1
       ELSE UNCHANGED <<healthIssued, healthPending>>
    /\ getUserPending' = [getUserPending EXCEPT ![t] = @ - 1]
    /\ UNCHANGED <<view, user, systemHealth, unhandled, dashVars, variant, clientVars,
                   orchVars, asyncVars, cams, lastEnvelope>>

\* getUser(t) rejects: request() throws on a non-2xx response or a
\* transport failure (readme.md 425-437) and app.js 24-32 has no catch
GetUserRejected(t) ==
    /\ getUserPending[t] > 0
    /\ getUserPending' = [getUserPending EXCEPT ![t] = @ - 1]
    /\ unhandled' = TRUE
    /\ UNCHANGED <<view, user, token, storage, systemHealth, healthPending,
                   healthIssued, dashVars, variant, clientVars, orchVars, asyncVars,
                   cams, lastEnvelope>>

(***************************************************************************)
(* Dashboard: account deletion                                             *)
(***************************************************************************)
\* App renders it at app.js 220-222
DashboardMounted == Truthy(user) /\ view = "dashboard"

\* the onLogout prop of Dashboard: App passes user and token only
onLogout == Undefined

\* "Delete Account" (app.js 476-478): the confirmation dialog opens
OpenDeleteConfirm ==
    /\ DashboardMounted /\ ~showDeleteConfirm
    /\ showDeleteConfirm' = TRUE
    /\ UNCHANGED <<view, user, token, storage, systemHealth, healthPending,
                   healthIssued, getUserPending, unhandled, deletePending,
                   alerts, variant, clientVars, orchVars, asyncVars, cams, lastEnvelope>>

\* "Cancel" in the dialog (app.js 714-719)
CancelDelete ==
    /\ DashboardMounted /\ showDeleteConfirm
    /\ showDeleteConfirm' = FALSE
    /\ UNCHANGED <<view, user, token, storage, systemHealth, healthPending,
                   healthIssued, getUserPending, unhandled, deletePending,
                   alerts, variant, clientVars, orchVars, asyncVars, cams, lastEnvelope>>

\* "Delete Forever" (app.js 720-727): the dialog closes and
\* handleDeleteAccount runs up to its await (app.js 437-444)
handleDeleteAccount ==
    /\ DashboardMounted /\ showDeleteConfirm
    /\ deletePending < MaxDeletes
    /\ showDeleteConfirm' = FALSE
    /\ deletePending' = deletePending + 1
    /\ UNCHANGED <<view, user, token, storage, systemHealth, healthPending,
                   healthIssued, getUserPending, unhandled, alerts, variant, clientVars,
                   orchVars, asyncVars, cams, lastEnvelope>>

\* handleDeleteAccount after its await, data.success true (app.js 446-448,
\* 452-454): alert, then onLogout(); calling the undefined prop throws a
\* TypeError inside the try, which the catch reports with a second alert
DeleteSuccess ==
    /\ deletePending > 0
    /\ deletePending' = deletePending - 1
    /\ IF onLogout = Undefined
       THEN /\ alerts' = <<"Account deleted successfully",
                           "Error deleting account: onLogout is not a function">>
            /\ UNCHANGED <<view, user, token, storage, healthPending,
                           healthIssued, getUserPending, showDeleteConfirm>>
       ELSE /\ alerts' = <<"Account deleted successfully">>
            /\ user' = Null
            /\ token' = Null
            /\ storage' = Null
            /\ view' = "home"
            /\ RunEffect(token, Null)
            /\ showDeleteConfirm' = FALSE
    /\ UNCHANGED <<systemHealth, unhandled, variant, clientVars, orchVars, asyncVars,
                   cams, lastEnvelope>>

\* handleDeleteAccount after its await, data.success false (app.js 449-451)
DeleteFailure ==
    /\ deletePending > 0
    /\ deletePending' = deletePending - 1
    /\ alerts' = <<"Failed to delete account">>
    /\ UNCHANGED <<view, user, token, storage, systemHealth, healthPending,
                   healthIssued, getUserPending, unhandled,
                   showDeleteConfirm, variant, clientVars, orchVars, asyncVars, cams,
                   lastEnvelope>>

\* handleDeleteAccount: fetch or response.json() rejects (app.js 452-454)
DeleteError ==
    /\ deletePending > 0
    /\ deletePending' = deletePending - 1
    /\ alerts' = <<"Error deleting account">>
    /\ UNCHANGED <<view, user, token, storage, systemHealth, healthPending,
                   healthIssued, getUserPending, unhandled,
                   showDeleteConfirm, variant, clientVars, orchVars, asyncVars, cams,
                   lastEnvelope>>

(***************************************************************************)
(* Login and Register                                                      *)
(***************************************************************************)
\* handleInputChange (Login.jsx 17-23, 178-184)
handleInputChange(field, value) ==
    /\ formData' = [formData EXCEPT ![field] = value]
    /\ error' = ""

\* the inputs are rendered by Login always and by Register in step 1
InputChange(field, value) ==
    /\ OrchMounted
    /\ view = "register" => step = 1
    /\ view = "login" => field \in {"username", "password"}
    /\ formData[field] # value
    /\ handleInputChange(field, value)
    /\ UNCHANGED <<appVars, variant, clientVars, inst, faceImage, fingerprintData,
                   showWebcam, loading, step, fingerprintScanning, asyncVars,
                   cams, lastEnvelope>>

\* the section of the form that holds the biometric controls is rendered
BiometricsShown == OrchMounted /\ (view = "register" => step = 2)

\* "Capture Face" / "Start Face Capture" (Login.jsx 108-117, 418-428)
OpenWebcam(maxCams) ==
    /\ BiometricsShown
    /\ ~showWebcam /\ ~Truthy(faceImage)
    /\ Len(cams) < maxCams
    /\ showWebcam' = TRUE
    /\ cams' = CamsMounted(cams)
    /\ UNCHANGED <<appVars, variant, clientVars, inst, formData, faceImage,
                   fingerprintData, loading, error, step,
                   fingerprintScanning, asyncVars, lastEnvelope>>

\* WebcamCapture's Cancel button: onCancel = () => setShowWebcam(false)
\* (WebcamCapture.jsx 116-123; Login.jsx 119-121, 430-432)
Cancel ==
    /\ CamMounted
    /\ showWebcam' = FALSE
    /\ cams' = [cams EXCEPT ![cur] = [Unmount(@) EXCEPT !.cancelled = TRUE]]
    /\ UNCHANGED <<appVars, variant, clientVars, inst, formData, faceImage,
                   fingerprintData, loading, error, step,
                   fingerprintScanning, asyncVars, lastEnvelope>>

\* (mutant) a Retake that starts the whole biometric step again
RetakeClearingBoth ==
    /\ BiometricsShown
    /\ Truthy(faceImage) /\ ~showWebcam
    /\ faceImage' = Null
    /\ fingerprintData' = Null
    /\ UNCHANGED <<appVars, variant, clientVars, inst, formData,
                   showWebcam, loading, error, step, fingerprintScanning,
                   asyncVars, cams, lastEnvelope>>

\* "Retake" (Login.jsx 123-134, 434-451)
Retake ==
    /\ BiometricsShown
    /\ Truthy(faceImage) /\ ~showWebcam
    /\ faceImage' = Null
    /\ UNCHANGED <<appVars, variant, clientVars, inst, formData, fingerprintData,
                   showWebcam, loading, error, step, fingerprintScanning,
                   asyncVars, cams, lastEnvelope>>

\* handleFaceCapture (Login.jsx 25-28, 186-189)
handleFaceCapture(imageData) ==
    /\ faceImage' = imageData
    /\ showWebcam' = FALSE

\* the regular expression /\S+@\S+\.\S+/ tested on a string of characters
NonSpace(ch) == ch # " "
EmailPattern(s) ==
    \E a \in 2..Len(s) : \E d \in (a + 2)..(Len(s) - 1) :
        /\ s[a] = "@" /\ NonSpace(s[a - 1])
        /\ s[d] = "." /\ NonSpace(s[d + 1])
        /\ \A k \in (a + 1)..(d - 1) : NonSpace(s[k])

\* (mutant) validateStep1 testing the password before the e-mail
validateStep1Reordered(f) ==
    IF f.username = "" \/ Len(f.username) < 3
    THEN "Username must be at least 3 characters"
    ELSE IF f.password = "" \/ Len(f.password) < 8
    THEN "Password must be at least 8 characters"
    ELSE IF Len(f.email) = 0 \/ ~EmailPattern(f.email)
    THEN "Please enter a valid email"
    ELSE IF f.password # f.confirmPassword
    THEN "Passwords do not match"
    ELSE ""

\* (mutant) validateStep1 without its two tests of the password
validateStep1Lenient(f) ==
    IF f.username = "" \/ Len(f.username) < 3
    THEN "Username must be at least 3 characters"
    ELSE IF Len(f.email) = 0 \/ ~EmailPattern(f.email)
    THEN "Please enter a valid email"
    ELSE ""

\* validateStep1 (Login.jsx 204-222): "" when valid, else the message set
validateStep1(f) ==
    IF f.username = "" \/ Len(f.username) < 3
    THEN "Username must be at least 3 characters"
    ELSE IF Len(f.email) = 0 \/ ~EmailPattern(f.email)
    THEN "Please enter a valid email"
    ELSE IF f.password = "" \/ Len(f.password) < 8
    THEN "Password must be at least 8 characters"
    ELSE IF f.password # f.confirmPassword
    THEN "Passwords do not match"
    ELSE ""

\* "Next: Biometric Setup" (Login.jsx 388-398): the step-2 section mounts,
\* and with it a WebcamCapture when showWebcam was left true
Advance(maxCams) ==
    /\ IsRegister /\ step = 1
    /\ IF validateStep1(formData) = ""
       THEN /\ step' = 2
            /\ error' = error
            /\ IF showWebcam
               THEN Len(cams) < maxCams /\ cams' = CamsMounted(cams)
               ELSE cams' = cams
       ELSE /\ error' = validateStep1(formData)
            /\ error' # error
            /\ UNCHANGED <<step, cams>>
    /\ UNCHANGED <<appVars, variant, clientVars, inst, formData, faceImage,
                   fingerprintData, showWebcam, loading,
                   fingerprintScanning, asyncVars, lastEnvelope>>

\* (mutant) a Back button that also discards the captured factors
goBackDiscarding ==
    /\ IsRegister /\ step = 2
    /\ step' = 1
    /\ faceImage' = Null
    /\ fingerprintData' = Null
    /\ cams' = CamsUnmounted(cams)
    /\ UNCHANGED <<appVars, variant, clientVars, inst, formData, showWebcam, loading,
                   error, fingerprintScanning, asyncVars, lastEnvelope>>

\* "Back" (Login.jsx 512-518; part_000 232-238): setStep(1); the step-2
\* section unmounts
goBack ==
    /\ IsRegister /\ step = 2
    /\ step' = 1
    /\ cams' = CamsUnmounted(cams)
    /\ UNCHANGED <<appVars, variant, clientVars, inst, formData, faceImage,
                   fingerprintData, showWebcam, loading, error,
                   fingerprintScanning, asyncVars, lastEnvelope>>

\* (mutant) a Scan Fingerprint button that stays while a scan is running
simulateFingerprintScanAgain ==
    /\ IsRegister /\ variant = "mandatory" /\ step = 2
    /\ ~Truthy(fingerprintData)
    /\ fpTimers[inst] < 2
    /\ fingerprintScanning' = TRUE
    /\ error' = ""
    /\ fpTimers' = [fpTimers EXCEPT ![inst] = @ + 1]
    /\ UNCHANGED <<appVars, variant, clientVars, inst, formData, faceImage,
                   fingerprintData, showWebcam, loading, step, submitReqs,
                   cams, lastEnvelope>>

\* simulateFingerprintScan (Login.jsx 191-202), from "Scan Fingerprint"
\* (Login.jsx 468-478)
simulateFingerprintScan ==
    /\ IsRegister /\ variant = "mandatory" /\ step = 2
    /\ ~Truthy(fingerprintData) /\ ~fingerprintScanning
    /\ fingerprintScanning' = TRUE
    /\ error' = ""
    /\ fpTimers' = [fpTimers EXCEPT ![inst] = @ + 1]
    /\ UNCHANGED <<appVars, variant, clientVars, inst, formData, faceImage,
                   fingerprintData, showWebcam, loading, step, submitReqs,
                   cams, lastEnvelope>>

\* (mutant) a timeout callback that records the template only while the
\* biometric step is shown and nothing is being submitted
ScanCompleteGuarded(i) ==
    /\ fpTimers[i] > 0
    /\ fpTimers' = [fpTimers EXCEPT ![i] = @ - 1]
    /\ IF OrchMounted /\ i = inst /\ step = 2 /\ ~loading
       THEN /\ fingerprintData' = "FP_template"
            /\ fingerprintScanning' = FALSE
       ELSE UNCHANGED <<fingerprintData, fingerprintScanning>>
    /\ UNCHANGED <<appVars, variant, clientVars, inst, formData, faceImage, showWebcam,
                   loading, error, step, submitReqs, cams, lastEnvelope>>

\* (mutant) a timeout callback that records the template only
ScanCompleteStillScanning(i) ==
    /\ fpTimers[i] > 0
    /\ fpTimers' = [fpTimers EXCEPT ![i] = @ - 1]
    /\ IF OrchMounted /\ i = inst
       THEN fingerprintData' = "FP_template"
       ELSE UNCHANGED fingerprintData
    /\ UNCHANGED <<appVars, variant, clientVars, inst, formData, faceImage,
                   showWebcam, loading, error, step, fingerprintScanning,
                   submitReqs, cams, lastEnvelope>>

\* the setTimeout callback of simulateFingerprintScan (Login.jsx 196-201)
ScanComplete(i) ==
    /\ fpTimers[i] > 0
    /\ fpTimers' = [fpTimers EXCEPT ![i] = @ - 1]
    /\ IF OrchMounted /\ i = inst
       THEN /\ fingerprintData' = "FP_template"
            /\ fingerprintScanning' = FALSE
       ELSE UNCHANGED <<fingerprintData, fingerprintScanning>>
    /\ UNCHANGED <<appVars, variant, clientVars, inst, formData, faceImage, showWebcam,
                   loading, error, step, submitReqs, cams, lastEnvelope>>

\* (mutant) a Re-scan that also removes the persisted token
RescanClearingToken ==
    /\ IsRegister /\ variant = "mandatory" /\ step = 2
    /\ Truthy(fingerprintData) /\ ~fingerprintScanning
    /\ fingerprintData' = Null
    /\ storage' = Null
    /\ UNCHANGED <<view, user, token, systemHealth, healthPending,
                   healthIssued, getUserPending, unhandled, dashVars,
                   variant, clientVars, inst, formData, faceImage,
                   showWebcam, loading, error, step, fingerprintScanning,
                   asyncVars, cams, lastEnvelope>>

\* "Re-scan" (Login.jsx 494-507)
Rescan ==
    /\ IsRegister /\ variant = "mandatory" /\ step = 2
    /\ Truthy(fingerprintData) /\ ~fingerprintScanning
    /\ fingerprintData' = Null
    /\ UNCHANGED <<appVars, variant, clientVars, inst, formData, faceImage, showWebcam,
                   loading, error, step, fingerprintScanning, asyncVars,
                   cams, lastEnvelope>>

\* validateStep2 (Login.jsx 224-234): "" when valid, else the message set
validateStep2 ==
    IF ~Truthy(faceImage) THEN "Face capture is required for registration"
    ELSE IF ~Truthy(fingerprintData)
    THEN "Fingerprint scan is required for registration"
    ELSE ""

\* (mutant) a submit button that wants a face sample in every variant
SubmitButtonRequiringFace == ~loading /\ Truthy(faceImage)

\* (mutant) a submit button that is never disabled by `loading`
SubmitButtonIgnoringLoading ==
    (view = "register" /\ variant = "mandatory")
    => (Truthy(faceImage) /\ Truthy(fingerprintData))

\* the submit button is rendered and not disabled (Login.jsx 137-140,
\* 519-522; part_000 239-242)
SubmitButtonEnabled ==
    IF view = "register" /\ variant = "mandatory"
    THEN ~(loading \/ ~Truthy(faceImage) \/ ~Truthy(fingerprintData))
    ELSE ~loading

\* (mutant) a form whose inputs are not `required`
SubmitEventUnchecked ==
    /\ OrchMounted
    /\ view = "register" => step = 2
    /\ SubmitButtonEnabled

\* the browser fires the form's submit event: the submit button is rendered
\* and enabled and every rendered `required` input has a value
\* (Login.jsx 69-100, 318, 402)
SubmitEvent ==
    /\ OrchMounted
    /\ view = "register" => step = 2
    /\ view = "login" => formData.username # "" /\ formData.password # ""
    /\ SubmitButtonEnabled

\* (mutant) a request body assembled without the face sample
AuthRequestWithoutFace ==
    [inst |-> inst, kind |-> view,
     username |-> formData.username, password |-> formData.password,
     email |-> IF view = "register" THEN formData.email ELSE <<>>,
     face |-> Null,
     fingerprint |-> IF view = "register" /\ variant = "mandatory"
                     THEN fingerprintData ELSE Undefined]

\* the body sent to /login or /register (Login.jsx 36-40, 247-253;
\* part_000 58-63)
AuthRequest ==
    [inst |-> inst, kind |-> view,
     username |-> formData.username, password |-> formData.password,
     email |-> IF view = "register" THEN formData.email ELSE <<>>,
     face |-> faceImage,
     fingerprint |-> IF view = "register" /\ variant = "mandatory"
                     THEN fingerprintData ELSE Undefined]

\* handleSubmit up to its await (Login.jsx 30-40, 236-253; part_000 52-63)
handleSubmit ==
    /\ SubmitEvent
    /\ IF view = "register" /\ variant = "mandatory" /\ validateStep2 # ""
       THEN /\ error' = validateStep2
            /\ UNCHANGED <<loading, submitReqs>>
       ELSE /\ loading' = TRUE
            /\ error' = ""
            /\ submitReqs' = Append(submitReqs, AuthRequest)
    /\ UNCHANGED <<appVars, variant, clientVars, inst, formData, faceImage,
                   fingerprintData, showWebcam, step, fingerprintScanning,
                   fpTimers, cams, lastEnvelope>>

Remove(seq, k) == [j \in 1..(Len(seq) - 1) |-> IF j < k THEN seq[j] ELSE seq[j + 1]]

\* the instance that sent request r is the one App renders now
OwnerMounted(r) == OrchMounted /\ r.inst = inst

\* (mutant) the fallback text whatever the envelope's message
FailureTextGeneric(r, m) ==
    IF r.kind = "login" THEN "Login failed" ELSE "Registration failed"

\* `response.message || fallback` (Login.jsx 45, 258)
FailureText(r, m) ==
    IF Truthy(m) THEN m
    ELSE IF r.kind = "login" THEN "Login failed" ELSE "Registration failed"

\* (mutant) the fallback text whatever the envelope says
RequestErrorGeneric(m) == "Request failed"

\* request() throws new Error(data.message || 'Request failed')
\* (readme.md 425-437)
RequestError(m) == IF Truthy(m) THEN m ELSE "Request failed"

\* `err.message || fallback` (Login.jsx 48, 261)
ErrorText(r, m) ==
    IF Truthy(m) THEN m
    ELSE IF r.kind = "login" THEN "Login failed. Please try again."
    ELSE "Registration failed. Please try again."

\* handleSubmit after its await, envelope with success:true
\* (Login.jsx 42-43, 49-51, 255-256, 262-264)
SubmitSuccess(k, data, tok) ==
    /\ k \in 1..Len(submitReqs)
    /\ submitReqs' = Remove(submitReqs, k)
    /\ handleLoginSuccess(data, tok)
    /\ OrchUnmounted
    /\ lastEnvelope' =
           [handled |-> TRUE, success |-> TRUE, data |-> data, token |-> tok]
    /\ UNCHANGED <<systemHealth, unhandled, dashVars, variant, clientVars, fpTimers>>

\* (mutant) a failure branch that also drops the captured face
SubmitFailureDroppingFace(k, m) ==
    /\ k \in 1..Len(submitReqs)
    /\ submitReqs' = Remove(submitReqs, k)
    /\ IF OwnerMounted(submitReqs[k])
       THEN /\ error' = FailureText(submitReqs[k], m)
            /\ loading' = FALSE
            /\ faceImage' = Null
       ELSE UNCHANGED <<error, loading, faceImage>>
    /\ lastEnvelope' =
           [handled |-> TRUE, success |-> FALSE, data |-> Undefined,
            token |-> Undefined]
    /\ UNCHANGED <<appVars, variant, clientVars, inst, formData,
                   fingerprintData, showWebcam, step, fingerprintScanning,
                   fpTimers, cams>>

\* handleSubmit after its await, envelope with success:false
\* (Login.jsx 44-46, 49-51, 257-259, 262-264)
SubmitFailure(k, m) ==
    /\ k \in 1..Len(submitReqs)
    /\ submitReqs' = Remove(submitReqs, k)
    /\ IF OwnerMounted(submitReqs[k])
       THEN /\ error' = FailureText(submitReqs[k], m)
            /\ loading' = FALSE
       ELSE UNCHANGED <<error, loading>>
    /\ lastEnvelope' =
           [handled |-> TRUE, success |-> FALSE, data |-> Undefined,
            token |-> Undefined]
    /\ UNCHANGED <<appVars, variant, clientVars, inst, formData, faceImage,
                   fingerprintData, showWebcam, step, fingerprintScanning,
                   fpTimers, cams>>

\* (mutant) a handleSubmit whose catch has no finally
SubmitErrorKeepingLoading(k, m) ==
    /\ k \in 1..Len(submitReqs)
    /\ submitReqs' = Remove(submitReqs, k)
    /\ IF OwnerMounted(submitReqs[k])
       THEN error' = ErrorText(submitReqs[k], RequestError(m))
       ELSE UNCHANGED error
    /\ lastEnvelope' =
           [handled |-> TRUE, success |-> FALSE, data |-> Undefined,
            token |-> Undefined]
    /\ UNCHANGED <<appVars, variant, clientVars, inst, formData, faceImage,
                   fingerprintData, showWebcam, loading, step,
                   fingerprintScanning, fpTimers, cams>>

\* handleSubmit after its await, api call rejected: a non-2xx response
\* (its envelope is no success) or a transport failure
\* (Login.jsx 47-51, 260-264)
SubmitError(k, m) ==
    /\ k \in 1..Len(submitReqs)
    /\ submitReqs' = Remove(submitReqs, k)
    /\ IF OwnerMounted(submitReqs[k])
       THEN /\ error' = ErrorText(submitReqs[k], RequestError(m))
            /\ loading' = FALSE
       ELSE UNCHANGED <<error, loading>>
    /\ lastEnvelope' =
           [handled |-> TRUE, success |-> FALSE, data |-> Undefined,
            token |-> Undefined]
    /\ UNCHANGED <<appVars, variant, clientVars, inst, formData, faceImage,
                   fingerprintData, showWebcam, step, fingerprintScanning,
                   fpTimers, cams>>

(***************************************************************************)
(* WebcamCapture: asynchronous steps                                       *)
(***************************************************************************)
\* getUserMedia resolves: startWebcam after its await (WebcamCapture.jsx
\* 28-32)
StartWebcamGranted(i) ==
    /\ i \in 1..Len(cams)
    /\ cams[i].acq = "pending"
    /\ cams' = [cams EXCEPT ![i] =
                 IF @.mounted
                 THEN [@ EXCEPT !.acq = "granted", !.live = TRUE,
                                !.stream = TRUE, !.error = ""]
                 ELSE [@ EXCEPT !.acq = "granted", !.live = TRUE]]
    /\ UNCHANGED <<appVars, variant, clientVars, orchVars, asyncVars, lastEnvelope>>

\* (mutant) a catch that only logs the failure
StartWebcamDeniedSilently(i) ==
    /\ i \in 1..Len(cams)
    /\ cams[i].acq = "pending"
    /\ cams' = [cams EXCEPT ![i] = [@ EXCEPT !.acq = "denied"]]
    /\ UNCHANGED <<appVars, variant, clientVars, orchVars, asyncVars, lastEnvelope>>

\* getUserMedia rejects: startWebcam's catch (WebcamCapture.jsx 33-36)
StartWebcamDenied(i) ==
    /\ i \in 1..Len(cams)
    /\ cams[i].acq = "pending"
    /\ cams' = [cams EXCEPT ![i] =
                 IF @.mounted
                 THEN [@ EXCEPT !.acq = "denied",
                                !.error = "Unable to access webcam"]
                 ELSE [@ EXCEPT !.acq = "denied"]]
    /\ UNCHANGED <<appVars, variant, clientVars, orchVars, asyncVars, lastEnvelope>>

\* (mutant) a Capture button that is never disabled
handleCaptureRearming ==
    /\ CamMounted
    /\ cams' = [cams EXCEPT ![cur] =
                 [cams[cur] EXCEPT !.timer = TRUE, !.count = <<CountdownStart>>,
                                   !.countdown = <<CountdownStart>>,
                                   !.tstream = cams[cur].stream]]
    /\ UNCHANGED <<appVars, variant, clientVars, orchVars, asyncVars,
                   lastEnvelope>>

\* handleCapture (WebcamCapture.jsx 45-60), from the "Capture Face" button,
\* disabled while countdown !== null (WebcamCapture.jsx 124-128)
handleCapture ==
    /\ CamMounted
    /\ cams[cur].countdown = <<>>
    /\ cams' = [cams EXCEPT ![cur] =
                 [cams[cur] EXCEPT !.timer = TRUE, !.count = <<CountdownStart>>,
                                   !.countdown = <<CountdownStart>>,
                                   !.tstream = cams[cur].stream]]
    /\ UNCHANGED <<appVars, variant, clientVars, orchVars, asyncVars, lastEnvelope>>

\* one run of the interval callback (WebcamCapture.jsx 50-59)
IntervalTick(i) ==
    /\ i \in 1..Len(cams)
    /\ cams[i].timer
    /\ LET c == cams[i]
           n == c.count[1] - 1
           ticked == [c EXCEPT !.count = <<n>>,
                               !.countdown = IF c.mounted THEN <<n>> ELSE @]
           cleared == [ticked EXCEPT !.timer = FALSE]
       IN  IF n # 0
           THEN /\ cams' = [cams EXCEPT ![i] = ticked]
                /\ UNCHANGED <<faceImage, showWebcam>>
           ELSE IF RefsAttached(c)
           THEN /\ handleFaceCapture(ImageOf(c))
                /\ cams' = [cams EXCEPT ![i] =
                     Unmount([captureImage(cleared) EXCEPT
                                  !.countdown = <<>>])]
           ELSE /\ cams' = [cams EXCEPT ![i] = cleared]
                /\ UNCHANGED <<faceImage, showWebcam>>
    /\ UNCHANGED <<appVars, variant, clientVars, inst, formData, fingerprintData,
                   loading, error, step, fingerprintScanning, asyncVars,
                   lastEnvelope>>

(***************************************************************************)
(* ApiService (readme.md 406-483)                                          *)
(***************************************************************************)
\* request(endpoint, options) (readme.md 407-438): one fetch(); its
\* rejection and that of response.json() are logged and thrown again, a
\* response that is not ok throws Error(data.message || 'Request failed'),
\* any other returns the parsed body
request(outcome) ==
    IF outcome.net = "failed" THEN Thrown(FetchError)
    ELSE IF outcome.net = "unparsable" THEN Thrown(ParseError)
    ELSE IF ~outcome.ok THEN Thrown(RequestError(outcome.data.message))
    ELSE Returned(outcome.data)

\* checkHealth() (readme.md 440-447): request('/health') whose error is
\* caught and turned into a failure envelope
checkHealth(outcome) ==
    LET r == request(outcome)
    IN  IF r.thrown
        THEN Returned([success |-> FALSE, message |-> r.message])
        ELSE r

\* register, login, getUser, updateBiometrics (readme.md 449-479) return
\* this.request(...) as it is
Call(op, outcome) ==
    IF op = "checkHealth" THEN checkHealth(outcome) ELSE request(outcome)

\* an operation is invoked: its one fetch() is made
ApiInvoke(op) ==
    /\ Len(apiCalls) < MaxCalls
    /\ apiInvoked < MaxInvocations
    /\ apiCalls' = Append(apiCalls, op)
    /\ apiInvoked' = apiInvoked + 1
    /\ apiFetched' = apiFetched + 1
    /\ UNCHANGED <<appVars, variant, orchVars, asyncVars, cams, lastEnvelope,
                   apiSettled>>

\* (mutant) a call whose request failed is sent again
ApiSettleRetrying(k, outcome) ==
    /\ k \in 1..Len(apiCalls)
    /\ IF Call(apiCalls[k], outcome).thrown
       THEN /\ apiFetched' = apiFetched + 1
            /\ UNCHANGED <<apiCalls, apiSettled>>
       ELSE /\ apiSettled' = [op |-> apiCalls[k], outcome |-> outcome,
                              result |-> Call(apiCalls[k], outcome)]
            /\ apiCalls' = Remove(apiCalls, k)
            /\ UNCHANGED apiFetched
    /\ UNCHANGED <<appVars, variant, orchVars, asyncVars, cams, lastEnvelope,
                   apiInvoked>>

\* the fetch() of call k settles with `outcome`, and so does the call
ApiSettle(k, outcome) ==
    /\ k \in 1..Len(apiCalls)
    /\ apiSettled' = [op |-> apiCalls[k], outcome |-> outcome,
                      result |-> Call(apiCalls[k], outcome)]
    /\ apiCalls' = Remove(apiCalls, k)
    /\ UNCHANGED <<appVars, variant, orchVars, asyncVars, cams, lastEnvelope,
                   apiInvoked, apiFetched>>

(***************************************************************************)
(* Specifications                                                          *)
(***************************************************************************)
\* ---- the groups of steps
\* navigation in App's header
Navigate == \E v \in {"home", "login", "register"} : SetView(v)

\* the session side of App
Session ==
    \/ handleLogout
    \/ \E ok \in BOOLEAN : HealthResponse(ok)
    \/ \E t \in Tokens, d \in Profiles : GetUserSuccess(t, d)
    \/ \E t \in Tokens : GetUserFailure(t)
    \/ \E t \in Tokens : GetUserRejected(t)

\* account deletion from the Dashboard
Deletion ==
    \/ OpenDeleteConfirm
    \/ CancelDelete
    \/ handleDeleteAccount
    \/ DeleteSuccess
    \/ DeleteFailure
    \/ DeleteError

\* typing into the form, any of the values of the model
TypeAny ==
    \/ \E x \in Usernames : InputChange("username", x)
    \/ \E x \in Emails \cup BadEmails : InputChange("email", x)
    \/ \E x \in Passwords : InputChange("password", x)
    \/ \E x \in Passwords : InputChange("confirmPassword", x)

\* typing credentials that pass validateStep1
TypeValid ==
    \/ InputChange("username", "alice")
    \/ \E x \in Emails : InputChange("email", x)
    \/ InputChange("password", "password1")
    \/ InputChange("confirmPassword", "password1")

\* the two steps of Register
Steps(maxCams) == Advance(maxCams) \/ goBack

\* the face factor and the WebcamCapture that produces it
Face(maxCams) ==
    \/ OpenWebcam(maxCams)
    \/ Cancel
    \/ Retake
    \/ \E i \in 1..Len(cams) : StartWebcamGranted(i)
    \/ \E i \in 1..Len(cams) : StartWebcamDenied(i)
    \/ handleCapture
    \/ \E i \in 1..Len(cams) : IntervalTick(i)

\* the fingerprint factor
Fingerprint ==
    \/ simulateFingerprintScan
    \/ \E i \in 1..MaxInst : ScanComplete(i)
    \/ Rescan

\* submission and the three ways it ends
Submission ==
    \/ handleSubmit
    \/ \E k \in 1..Len(submitReqs), d \in Profiles, t \in EnvelopeTokens :
           SubmitSuccess(k, d, t)
    \/ \E k \in 1..Len(submitReqs), m \in Messages : SubmitFailure(k, m)
    \/ \E k \in 1..Len(submitReqs), m \in Messages : SubmitError(k, m)

\* the same with one token and no service message: what the orchestrator
\* does with an envelope does not depend on either
SubmissionPlain ==
    \/ handleSubmit
    \/ \E k \in 1..Len(submitReqs), d \in Profiles :
           SubmitSuccess(k, d, "tok-1")
    \/ \E k \in 1..Len(submitReqs) : SubmitFailure(k, "")
    \/ \E k \in 1..Len(submitReqs) : SubmitError(k, "")

\* ---- the whole front end
\* ApiService calls, whoever makes them
Client ==
    \/ \E op \in Operations : ApiInvoke(op)
    \/ \E k \in 1..MaxCalls, outcome \in Outcomes : ApiSettle(k, outcome)

Next ==
    \/ Client
    \/ Navigate
    \/ Session
    \/ TypeAny
    \/ Steps(MaxCams)
    \/ Face(MaxCams)
    \/ Fingerprint
    \/ Submission
    \/ Deletion

Spec == Init /\ [][Next]_vars

\* ---- the capture resource under every navigation of its parents: a
\*      process started without a persisted token, in which no form is
\*      submitted and no fingerprint is scanned (those steps reach a
\*      WebcamCapture only by unmounting its parent, as Navigate does)
InitCapture == Init /\ storage = Null

NextCapture ==
    \/ Navigate
    \/ TypeValid
    \/ Steps(MaxCams)
    \/ Face(MaxCams)

SpecCapture == InitCapture /\ [][NextCapture]_vars

\* ---- the same with room for a second WebcamCapture
NextLeak ==
    \/ Navigate
    \/ TypeValid
    \/ Steps(LeakCams)
    \/ Face(LeakCams)

SpecLeak == InitCapture /\ [][NextLeak]_vars

\* ---- the orchestrators with both factors and their submissions, in a
\*      process started without a persisted token
NextOrch ==
    \/ Navigate
    \/ TypeValid
    \/ Steps(MaxCams)
    \/ Face(MaxCams)
    \/ Fingerprint
    \/ SubmissionPlain

SpecOrch == InitCapture /\ [][NextOrch]_vars

\* ---- submissions that the network answers: a request in flight
\*      eventually returns an envelope or fails; the camera is granted and
\*      the user lets each capture run to its end
Responds ==
    \E k \in 1..Len(submitReqs) :
        \/ \E d \in Profiles : SubmitSuccess(k, d, "tok-1")
        \/ SubmitFailure(k, "")
        \/ SubmitError(k, "")

FaceGranted(maxCams) ==
    \/ OpenWebcam(maxCams)
    \/ \E i \in 1..Len(cams) : StartWebcamGranted(i)
    \/ handleCapture
    \/ \E i \in 1..Len(cams) : IntervalTick(i)

NextSubmit ==
    \/ Navigate
    \/ TypeValid
    \/ Steps(MaxCams)
    \/ FaceGranted(MaxCams)
    \/ Fingerprint
    \/ SubmissionPlain

SpecSubmitFair == InitCapture /\ [][NextSubmit]_vars /\ WF_vars(Responds)

\* ---- the fingerprint scan of Register and the navigation around it; a
\*      timeout that was set eventually fires
NextScan ==
    \/ Navigate
    \/ TypeAny
    \/ Steps(MaxCams)
    \/ Fingerprint

TimerFires == \E i \in 1..MaxInst : ScanComplete(i)

SpecScanFair == InitCapture /\ [][NextScan]_vars /\ WF_vars(TimerFires)

\* ---- the session: App, the submissions of Login and of Register and
\*      their envelopes, without the capture of biometric factors
NextSession ==
    \/ Navigate
    \/ Session
    \/ TypeValid
    \/ Steps(MaxCams)
    \/ Submission

SpecSession == Init /\ [][NextSession]_vars

\* ---- the account: the session reached by Login or by a persisted token,
\*      and the deletion of the account from the Dashboard
NextAccount ==
    \/ Navigate
    \/ Session
    \/ TypeValid
    \/ SubmissionPlain
    \/ Deletion

SpecAccount == Init /\ [][NextAccount]_vars

\* ---- the forms: Login and the first step of Register typed with valid
\*      and invalid credentials, the fingerprint factor and the submissions
NextForm ==
    \/ Navigate
    \/ TypeAny
    \/ Steps(MaxCams)
    \/ Fingerprint
    \/ SubmissionPlain

SpecForm == InitCapture /\ [][NextForm]_vars

\* ---- ApiService alone: every operation against every outcome of its
\*      fetch()
NextClient == Client

SpecClient == InitCapture /\ [][NextClient]_vars

\* ---- registration with credentials that are edited again: the steps of
\*      the orchestrators with their factors, and a password that passes
\*      validateStep1 or one that does not
TypeEdits ==
    \/ TypeValid
    \/ InputChange("password", "short")

NextRegister ==
    \/ Navigate
    \/ TypeEdits
    \/ Steps(MaxCams)
    \/ Face(MaxCams)
    \/ Fingerprint
    \/ SubmissionPlain

SpecRegister == InitCapture /\ [][NextRegister]_vars

\* ---- every component around the persisted token: App's session side, an
\*      orchestrator with its WebcamCapture and fingerprint scan, and an
\*      ApiService call that no component of App accounts for
\*      (updateBiometrics, here always cut off by the network)
ClientPlain ==
    \/ ApiInvoke("updateBiometrics")
    \/ \E k \in 1..MaxCalls :
           ApiSettle(k, [net |-> "failed", ok |-> FALSE, data |-> NoData])

NextShared ==
    \/ Navigate
    \/ Session
    \/ TypeValid
    \/ Steps(MaxCams)
    \/ Face(MaxCams)
    \/ Fingerprint
    \/ SubmissionPlain
    \/ ClientPlain

SpecShared == Init /\ [][NextShared]_vars

\* sanity: a WebcamCapture is mounted exactly when its parent renders it
MountConsistent == CamMounted <=> (BiometricsShown /\ showWebcam)


(***************************************************************************)
(* Claims                                                                  *)
(***************************************************************************)
\* a step that takes the mounted Register from step 2 back to step 1
GoBackStep ==
    /\ IsRegister /\ step = 2
    /\ IsRegister' /\ inst' = inst /\ step' = 1

\* C1 (as claimed): goBack() from step 2 leaves both the face factor and
\* the fingerprint factor absent, whatever was set before.
C1_GoBackClearsFactors ==
    [][GoBackStep => (faceImage' = Null /\ fingerprintData' = Null)]_vars

\* C1 (amended): goBack() from step 2 moves Register to step 1 and leaves
\* the face factor and the fingerprint factor exactly as they were: a
\* captured factor stays captured, in both Registration variants.
C1_GoBackKeepsFactors ==
    [][GoBackStep => (faceImage' = faceImage
                      /\ fingerprintData' = fingerprintData)]_vars

\* Register is back in step 1 with both factors still captured
C1_Witness ==
    IsRegister /\ step = 1 /\ Truthy(faceImage) /\ Truthy(fingerprintData)

\* C2: cancel() on a WebcamCapture that is Live or Armed (its stream was
\* acquired and it is mounted) stops the tracks of that stream: after the
\* cancel step the instance is unmounted and holds no running stream.
C2_CancelReleasesDevice ==
    [][\A i \in 1..Len(cams) :
         (cams[i].mounted /\ cams[i].acq = "granted" /\ cams'[i].cancelled)
         => (~cams'[i].mounted /\ ~cams'[i].live)]_vars

\* C3: a capture that delivers a FaceSample (a call of onCapture) leaves the
\* stream of that instance stopped, whenever the acquisition completed.
C3_CaptureReleasesDevice ==
    [][\A i \in 1..Len(cams) :
         cams'[i].delivered > cams[i].delivered => ~cams'[i].live]_vars

\* the acquired streams whose tracks were not stopped
HeldStreams == {i \in 1..Len(cams) : cams[i].live}

\* C4: in every reachable state at most one acquired stream is held.
C4_AtMostOneHeld == Cardinality(HeldStreams) <= 1

\* the interval callback of instance i runs in this step
TickOf(i) == cams[i].timer /\ cams'[i].count # cams[i].count

\* C5: once a WebcamCapture was cancelled, it never calls onCapture and no
\* run of its interval callback changes the orchestrator's face factor.
C5_NoCaptureAfterCancel ==
    [][\A i \in 1..Len(cams) :
         cams[i].cancelled
         => /\ cams'[i].delivered = cams[i].delivered
            /\ TickOf(i) => (faceImage' = faceImage
                             /\ showWebcam' = showWebcam)]_vars

\* an instance cancelled while Armed whose interval has since run down to
\* zero without delivering
C5_Witness ==
    \E i \in 1..Len(cams) :
        cams[i].cancelled /\ cams[i].count = <<0>> /\ cams[i].delivered = 0


\* the factors the active variant requires are present
RequiredPresent ==
    (view = "register" /\ variant = "mandatory")
    => (Truthy(faceImage) /\ Truthy(fingerprintData))

\* Login has no separate credential step: it is collecting biometrics once
\* the credentials its inputs require are typed
CredentialsEntered ==
    view = "login" => (formData.username # "" /\ formData.password # "")

\* submit() can be invoked and sends a request
SubmitSends == ENABLED (handleSubmit /\ Len(submitReqs') > Len(submitReqs))

\* C6: in CollectingBiometrics submit() is enabled (it can be invoked and
\* sends the request) if and only if the factors the variant requires are
\* present: both factors in mandatory Register, none in Login and in
\* optional Register.
C6_SubmitEnabledIffRequired ==
    (CollectingBiometrics /\ CredentialsEntered)
    => (SubmitSends <=> RequiredPresent)

\* mandatory Register collecting biometrics with both factors captured
C6_Witness ==
    /\ CollectingBiometrics /\ view = "register" /\ variant = "mandatory"
    /\ Truthy(faceImage) /\ Truthy(fingerprintData)
    /\ SubmitSends

\* the requests of orchestrator instance i that are in flight
InFlight(i) == {k \in 1..Len(submitReqs) : submitReqs[k].inst = i}

\* C7: every orchestrator instance has at most one request in flight, and
\* while it is Submitting submit() cannot be invoked: no step of
\* handleSubmit is possible, so nothing is sent and nothing changes.
C7_SingleSubmission ==
    /\ \A i \in 1..MaxInst : Cardinality(InFlight(i)) <= 1
    /\ Submitting => ~ENABLED handleSubmit

\* an orchestrator is Submitting with its one request in flight
C7_Witness == Submitting /\ Cardinality(InFlight(inst)) = 1

\* C8 (as claimed): while the orchestrator is Submitting, its face and
\* fingerprint factor states do not change.
C8_FactorsFrozenWhileSubmitting ==
    [][(Submitting /\ Submitting' /\ inst' = inst)
       => (faceImage' = faceImage
           /\ fingerprintData' = fingerprintData)]_vars

\* a step of the submission itself: handleSubmit sending, or a response
\* handled while the same orchestrator stays mounted
SubmissionStep ==
    /\ submitReqs' # submitReqs
    /\ OrchMounted /\ OrchMounted' /\ inst' = inst

\* C8 (amended): the submission itself never changes the factor states, and
\* a request in flight keeps the factors it was assembled with; the factor
\* states of the orchestrator can still be changed while Submitting by
\* Retake, Re-scan, a capture and a scan completion.
C8_RequestKeepsFactors ==
    [][/\ SubmissionStep => (faceImage' = faceImage
                             /\ fingerprintData' = fingerprintData)
       /\ \A k \in 1..Len(submitReqs') :
            \/ \E j \in 1..Len(submitReqs) : submitReqs[j] = submitReqs'[k]
            \/ /\ k = Len(submitReqs')
               /\ submitReqs'[k].face = faceImage
               /\ submitReqs'[k].fingerprint \in {fingerprintData, Undefined}
               /\ (view = "register" /\ variant = "mandatory")
                  => submitReqs'[k].fingerprint = fingerprintData]_vars

\* Submitting, and the face factor is no longer the one that was sent
C8_Witness ==
    /\ Submitting
    /\ \E k \in InFlight(inst) :
         Truthy(submitReqs[k].face) /\ submitReqs[k].face # faceImage

\* the response to request k is a failure handled by its orchestrator
FailedRequest(k) ==
    /\ k \in 1..Len(submitReqs)
    /\ submitReqs' = Remove(submitReqs, k)
    /\ OwnerMounted(submitReqs[k])
    /\ OrchMounted' /\ inst' = inst

\* submit() can be invoked and would send
SubmitReady ==
    /\ SubmitEvent
    /\ (view = "register" /\ variant = "mandatory") => validateStep2 = ""

\* the orchestrator shows what request r was assembled from
AsSent(r) ==
    /\ faceImage = r.face
    /\ r.fingerprint \in {fingerprintData, Undefined}
    /\ formData.username = r.username /\ formData.password = r.password

\* after the step the orchestrator still holds the factors r was sent with
StillAsSent(r) ==
    /\ Truthy(r.face) => faceImage' = r.face
    /\ Truthy(r.fingerprint) => fingerprintData' = r.fingerprint

\* C9 (as claimed): a failed submission returns the orchestrator to
\* CollectingBiometrics with the factors that were sent still set, and
\* submit() is enabled again at once.
C9_FailureRestoresCollecting ==
    [][\A k \in 1..Len(submitReqs) :
         FailedRequest(k)
         => (CollectingBiometrics' /\ StillAsSent(submitReqs[k])
             /\ SubmitReady')]_vars

\* C9 (amended): a failed submission clears loading, shows a message and
\* leaves the step, the form and both factor states as they are when the
\* response arrives; submit() is enabled again at once if the orchestrator
\* still shows its biometric section with what was sent.
C9_FailureKeepsFactors ==
    [][\A k \in 1..Len(submitReqs) :
         FailedRequest(k)
         => /\ ~loading' /\ error' # ""
            /\ UNCHANGED <<faceImage, fingerprintData, step, formData,
                           showWebcam>>
            /\ (BiometricsShown /\ AsSent(submitReqs[k])) => SubmitReady']_vars

\* mandatory Register after a failed submission: the message is shown, both
\* factors are still set and submit() is enabled
C9_Witness ==
    /\ IsRegister /\ variant = "mandatory" /\ step = 2
    /\ error = "Registration failed"
    /\ Truthy(faceImage) /\ Truthy(fingerprintData)
    /\ SubmitReady

\* C10 (as claimed): once a register/login envelope was handled, a token is
\* persisted if and only if the most recent such envelope had success:true
\* and a non-empty token.
C10_PersistedIffLastSuccess ==
    lastEnvelope.handled
    => ((storage # Null)
        <=> (lastEnvelope.success /\ Truthy(lastEnvelope.token)))

\* a register/login response is handled in this step
EnvelopeStep == Len(submitReqs') < Len(submitReqs)

\* C10 (amended): handling a register/login envelope with success:true and
\* a non-empty token persists that token; a failed envelope leaves the
\* persisted token as it was; any other step changes the persisted token
\* only by removing it together with the token of the session (logout, a
\* getUser envelope with success:false).
C10_PersistedOnSuccess ==
    [][IF EnvelopeStep
       THEN /\ (lastEnvelope'.success /\ Truthy(lastEnvelope'.token))
               => storage' = lastEnvelope'.token
            /\ ~lastEnvelope'.success => storage' = storage
       ELSE storage' # storage => (storage' = Null /\ token' = Null)]_vars

\* a login succeeded: its token is persisted and the user is signed in
C10_Witness ==
    /\ lastEnvelope.handled /\ lastEnvelope.success
    /\ storage = lastEnvelope.token /\ storage \in Tokens
    /\ user \in Profiles


\* the register/login envelope handled in this step is success:true with a
\* missing or empty token
TokenlessSuccess ==
    EnvelopeStep /\ lastEnvelope'.success /\ ~Truthy(lastEnvelope'.token)

\* C11: a token is written to persistent storage, and a user is adopted
\* through an orchestrator, only by a register/login envelope with
\* success:true and a non-empty token; a success envelope whose token is
\* missing or empty neither persists anything nor adopts a user.
C11_SessionOnlyWithToken ==
    [][/\ (storage' \notin {storage, Null} \/ (EnvelopeStep /\ user' # user))
          => (EnvelopeStep /\ lastEnvelope'.success
              /\ Truthy(lastEnvelope'.token))
       /\ TokenlessSuccess => (storage' = storage /\ user' = user)]_vars


\* the register/login envelope handled in this step is success:true with a
\* token
TokenSuccess ==
    EnvelopeStep /\ lastEnvelope'.success /\ Truthy(lastEnvelope'.token)

\* C12: when register or login returns success:true with profile u and
\* token t, the response is consumed once and App ends the step with
\* user = u, token = t, the persisted token = t and the dashboard view.
C12_SuccessAdoptsSession ==
    [][TokenSuccess
       => /\ Len(submitReqs') = Len(submitReqs) - 1
          /\ user' = lastEnvelope'.data
          /\ token' = lastEnvelope'.token
          /\ storage' = lastEnvelope'.token
          /\ view' = "dashboard"]_vars

\* a login succeeded with the second token while the first was persisted
C12_Witness ==
    /\ lastEnvelope.success /\ lastEnvelope.token = "tok-2"
    /\ user = lastEnvelope.data /\ token = "tok-2" /\ storage = "tok-2"
    /\ view = "dashboard" /\ getUserPending["tok-1"] > 0


\* a getUser call of a process that holds a persisted token and has no user
\* completes in this step without a profile being adopted
GetUserFailedStep ==
    /\ user = Null /\ Truthy(storage) /\ token = storage
    /\ \E t \in Tokens : getUserPending'[t] < getUserPending[t]
    /\ user' = Null

\* C13: at startup with a persisted token, a getUser call that fails in any
\* way (success:false envelope, non-2xx response, transport failure) evicts
\* the token from storage and from memory and leaves no user.
C13_GetUserFailureEvicts ==
    [][GetUserFailedStep
       => (storage' = Null /\ token' = Null /\ user' = Null)]_vars


\* a confirmed deletion is answered with success:true in this step
DeleteSucceededStep ==
    /\ deletePending' < deletePending
    /\ Len(alerts') > 0 /\ alerts'[1] = "Account deleted successfully"

\* C14: a confirmed account deletion answered with success:true evicts the
\* token from storage and from memory and leaves App without a user.
C14_DeletionEvictsToken ==
    [][DeleteSucceededStep
       => (storage' = Null /\ token' = Null /\ user' = Null)]_vars


\* the signed-in user leaves in this step
LogoutStep == Truthy(user) /\ ~Truthy(user')

\* C15: logout from Authenticated yields, in one step, user = null, the
\* in-memory token = null, no persisted token and the home view.
C15_LogoutClearsSession ==
    [][LogoutStep
       => (user' = Null /\ token' = Null /\ storage' = Null
           /\ view' = "home")]_vars

\* a user who signed in through Login has logged out
C15_Witness ==
    /\ lastEnvelope.success /\ Truthy(lastEnvelope.token)
    /\ user = Null /\ token = Null /\ storage = Null /\ view = "home"


\* the login requests in flight
LoginRequests == {k \in 1..Len(submitReqs) : submitReqs[k].kind = "login"}

\* C16 (as claimed): no login request is sent unless the username has at
\* least 3 characters and the password at least 8.
C16_LoginRequestsValidated ==
    \A k \in LoginRequests :
        Len(submitReqs[k].username) >= 3 /\ Len(submitReqs[k].password) >= 8

\* C16 (amended): no login request is sent unless username and password are
\* both non-empty; with an empty field the submission does not reach
\* handleSubmit, so nothing is sent and the orchestrator's state is
\* unchanged. Login checks no length.
C16_LoginRequestsNonEmpty ==
    /\ \A k \in LoginRequests :
         submitReqs[k].username # "" /\ submitReqs[k].password # ""
    /\ (IsLogin /\ (formData.username = "" \/ formData.password = ""))
       => ~ENABLED handleSubmit

\* a login request is in flight with a 2-character username and a
\* 5-character password
C16_Witness ==
    \E k \in LoginRequests :
        submitReqs[k].username = "ab" /\ submitReqs[k].password = "short"


\* the four rules of the credential step, in the order they are reported
UsernameRule(f) == Len(f.username) >= 3
EmailRule(f) == EmailPattern(f.email)
PasswordRule(f) == Len(f.password) >= 8
ConfirmationRule(f) == f.password = f.confirmPassword

RuleMessages ==
    <<"Username must be at least 3 characters", "Please enter a valid email",
      "Password must be at least 8 characters", "Passwords do not match">>

\* the message of the first rule that f violates, "" when all four hold
FirstViolation(f) ==
    IF ~UsernameRule(f) THEN RuleMessages[1]
    ELSE IF ~EmailRule(f) THEN RuleMessages[2]
    ELSE IF ~PasswordRule(f) THEN RuleMessages[3]
    ELSE IF ~ConfirmationRule(f) THEN RuleMessages[4]
    ELSE ""

\* a step of the mounted Register that starts in its credential step
CredentialStep == IsRegister /\ step = 1 /\ IsRegister' /\ inst' = inst

\* the step reports a rule
RuleReported == error' # error /\ \E n \in 1..4 : error' = RuleMessages[n]

\* C17: in Register, advance with credentials that violate a rule reports
\* exactly the first violated rule in the order username, e-mail, password,
\* confirmation, and stays in the credential step with credentials and
\* factors unchanged; it moves to the biometric step only when all four
\* rules hold, and then it can.
C17_AdvanceValidates ==
    [][CredentialStep
       => /\ step' = 2 => FirstViolation(formData) = ""
          /\ RuleReported
             => /\ error' = FirstViolation(formData)
                /\ step' = 1
                /\ UNCHANGED <<formData, faceImage, fingerprintData>>
          /\ (FirstViolation(formData) # "" /\ error # FirstViolation(formData))
             => ENABLED (Advance(MaxCams) /\ error' = FirstViolation(formData))
          /\ (FirstViolation(formData) = "" /\ ~showWebcam)
             => ENABLED (Advance(MaxCams) /\ step' = 2)]_vars

\* Register stays in its credential step reporting the e-mail although the
\* password is too short as well, with a fingerprint already recorded
C17_Witness ==
    /\ IsRegister /\ step = 1 /\ error = RuleMessages[2]
    /\ UsernameRule(formData) /\ ~EmailRule(formData)
    /\ ~PasswordRule(formData) /\ Truthy(fingerprintData)


\* C18: arm() takes effect only when the CaptureResource is Live: while the
\* acquisition is pending or after it failed, no countdown starts and the
\* instance delivers no FaceSample.
C18_ArmOnlyWhenLive ==
    [][\A i \in 1..Len(cams) :
         cams[i].acq # "granted"
         => /\ ~(~cams[i].timer /\ cams'[i].timer)
            /\ cams'[i].delivered = cams[i].delivered]_vars


\* a step of the orchestrator that stays mounted
SameOrchStep == OrchMounted /\ OrchMounted' /\ inst' = inst

\* the step records a face sample / a fingerprint template
FaceRecorded == faceImage' # faceImage /\ Truthy(faceImage')
FingerprintRecorded ==
    fingerprintData' # fingerprintData /\ Truthy(fingerprintData')

\* C19 (as claimed): a face sample or a fingerprint template is recorded
\* only while the orchestrator is in CollectingBiometrics, not in
\* CollectingCredentials and not while Submitting.
C19_RecordedOnlyWhileCollecting ==
    [][(SameOrchStep /\ ~CollectingBiometrics)
       => (~FaceRecorded /\ ~FingerprintRecorded)]_vars

\* C19 (amended): a face sample is recorded only while the orchestrator
\* shows its biometric section with the webcam open, which includes
\* Submitting but not the credential step; a fingerprint template is
\* recorded exactly when the scan timer of the mounted orchestrator fires,
\* in the credential step after goBack and while Submitting too.
C19_RecordedWhileMounted ==
    [][SameOrchStep
       => /\ FaceRecorded => (BiometricsShown /\ showWebcam)
          /\ FingerprintRecorded => fpTimers'[inst] < fpTimers[inst]
          /\ fpTimers'[inst] < fpTimers[inst]
             => (Truthy(fingerprintData') /\ ~fingerprintScanning')]_vars

\* a face sample was recorded while Submitting: the request in flight was
\* sent without one
C19_Witness ==
    /\ Submitting /\ Truthy(faceImage)
    /\ \E k \in InFlight(inst) : submitReqs[k].face = Null


\* C20: every orchestrator instance has at most one fingerprint scan in
\* flight: while the timer of a scan is pending no scan can be started,
\* whatever sequence of scan, rescan, goBack and advance came before.
C20_SingleScan ==
    /\ \A i \in 1..MaxInst : fpTimers[i] <= 1
    /\ (OrchMounted /\ inst > 0 /\ fpTimers[inst] > 0)
       => (fingerprintScanning /\ ~ENABLED simulateFingerprintScan)

\* a second scan is pending, started after a Re-scan made while Submitting
C20_Witness ==
    /\ IsRegister /\ step = 2 /\ fpTimers[inst] = 1
    /\ ~Truthy(fingerprintData) /\ Truthy(faceImage) /\ loading


\* the acquisition of mounted instance i completes in this step
AcquisitionEnds(i) ==
    /\ cams[i].mounted /\ cams[i].acq = "pending"
    /\ cams'[i].acq # "pending"

\* C21: an acquisition that fails leaves the (mounted) WebcamCapture with
\* the device error set and no stream held; one that succeeds leaves it
\* with the stream held and running and the error cleared.
C21_AcquireOutcome ==
    [][\A i \in 1..Len(cams) :
         AcquisitionEnds(i)
         => IF cams'[i].acq = "denied"
            THEN /\ cams'[i].error = "Unable to access webcam"
                 /\ ~cams'[i].stream /\ ~cams'[i].live
            ELSE /\ cams'[i].acq = "granted"
                 /\ cams'[i].stream /\ cams'[i].live
                 /\ cams'[i].error = ""]_vars

\* a mounted WebcamCapture whose acquisition failed shows the error
C21_Witness ==
    \E i \in 1..Len(cams) :
        /\ cams[i].mounted /\ cams[i].acq = "denied"
        /\ cams[i].error = "Unable to access webcam" /\ ~cams[i].live


\* a call has settled; its fetch() failed or was answered with a status
\* outside 2xx
CallSettled == apiSettled.op # Null
FailureOutcome(o) == o.net = "failed" \/ ~o.ok

\* the error text the failure of a fetch() with outcome o leads to
FailureMessage(o) ==
    IF o.net = "failed" THEN FetchError
    ELSE IF o.net = "unparsable" THEN ParseError
    ELSE IF Truthy(o.data.message) THEN o.data.message
    ELSE "Request failed"

\* C22 (as stated): for every operation, health included, a transport
\* failure or a response outside 2xx makes the call fail with an error
\* that carries the envelope's message if there is one and some fallback
\* text otherwise, and a 2xx response returns its envelope unchanged.
C22_EveryOperationFails ==
    CallSettled
    => LET o == apiSettled.outcome
           r == apiSettled.result
       IN  /\ FailureOutcome(o)
              => /\ r.thrown
                 /\ IF o.net = "json" /\ Truthy(o.data.message)
                    THEN r.message = o.data.message
                    ELSE Truthy(r.message)
           /\ (o.net = "json" /\ o.ok) => r = Returned(o.data)

\* C22 (amended): register, login, getUser and updateBiometrics fail on a
\* transport failure, a body that is not JSON or a response outside 2xx,
\* with the envelope's message, else 'Request failed', else the error of
\* fetch or of the parser; health never fails and returns that text in a
\* failure envelope; a 2xx response returns its envelope unchanged.
C22_FailureByOperation ==
    CallSettled
    => LET o == apiSettled.outcome
           r == apiSettled.result
       IN  IF o.net = "json" /\ o.ok THEN r = Returned(o.data)
           ELSE IF apiSettled.op = "checkHealth"
                THEN /\ ~r.thrown
                     /\ r.data = [success |-> FALSE,
                                  message |-> FailureMessage(o)]
                ELSE r.thrown /\ r.message = FailureMessage(o)

\* a health probe whose fetch was answered 500 with a message has
\* returned a failure envelope
C22_Witness ==
    /\ apiSettled.op = "checkHealth"
    /\ apiSettled.outcome.net = "json" /\ ~apiSettled.outcome.ok
    /\ apiSettled.outcome.data.message = "invalid credentials"
    /\ ~apiSettled.result.thrown
    /\ apiSettled.result.data.message = "invalid credentials"

\* C23: every invocation of an ApiService operation makes exactly one
\* fetch(): as many requests were sent as operations were invoked, also
\* after calls have failed.
C23_OneRequestPerCall == apiFetched = apiInvoked

\* a login failed and another call was invoked after it
C23_Witness ==
    /\ apiSettled.op = "login" /\ apiSettled.result.thrown
    /\ apiInvoked = 2 /\ apiFetched = 2


\* C24 (as stated): the health probe is issued exactly once in the life of
\* the process, whatever logs in, registers, logs out or is evicted later.
C24_HealthProbedOnce == healthIssued = 1

\* C24 (amended): the health probe is issued once at startup and once more
\* with every change of the in-memory token, and at no other time.
C24_HealthPerTokenChange ==
    [][healthIssued' = healthIssued + (IF token' # token THEN 1 ELSE 0)]_vars

\* a process started without a token that logged in and out has probed
\* three times
C24_Witness ==
    /\ healthIssued = 3
    /\ token = Null /\ ~Truthy(user) /\ lastEnvelope.success

\* C25: no failure of an ApiService call made by App or by an orchestrator
\* is left unhandled.
C25_NoUnhandledRejection == ~unhandled

\* C26: once a WebcamCapture was cancelled its countdown interval is no
\* longer scheduled, so none of its ticks can run.
C26_CancelStopsTimer ==
    \A i \in 1..Len(cams) : cams[i].cancelled => ~cams[i].timer

\* the response to getUser(t) is handled in this step
GetUserSettles(t) == getUserPending'[t] < getUserPending[t]

\* C27: the response to a getUser issued for a token other than the one
\* now held removes neither the held token nor its persisted copy.
C27_StaleFailureKeepsToken ==
    [][\A t \in Tokens :
         (GetUserSettles(t) /\ Truthy(token) /\ t # token)
         => (token' = token /\ storage' = storage)]_vars

\* C28: with no user and no token (as logout leaves App), a user appears
\* only with the success envelope of a register or login call.
C28_LoggedOutUntilSuccess ==
    [][(~Truthy(user) /\ token = Null /\ Truthy(user'))
       => (EnvelopeStep /\ lastEnvelope'.success)]_vars

\* C29: whenever App shows the dashboard of a user it holds a token, and
\* that token is the persisted one.
C29_AuthenticatedHoldsToken ==
    (Truthy(user) /\ view = "dashboard")
    => (Truthy(token) /\ storage = token)

\* C30: a stream obtained for a WebcamCapture that was unmounted while its
\* acquisition was pending is stopped at once.
C30_LateStreamStopped ==
    [][\A i \in 1..Len(cams) :
         (~cams[i].mounted /\ cams[i].acq = "pending"
          /\ cams'[i].acq = "granted")
         => ~cams'[i].live]_vars


\* C31: in every state the persisted token and App's in-memory token
\* agree: both absent, or both the same value.
C31_TokenAgreesWithStorage ==
    IF Truthy(token) THEN storage = token ELSE storage = Null


\* one of App's writers of the token runs in this step: the success
\* handler of register/login, logout, or the handler of a getUser response
TokenWriterStep ==
    \/ EnvelopeStep /\ lastEnvelope'.success
    \/ LogoutStep
    \/ \E t \in Tokens : GetUserSettles(t)

\* C32: the persisted token changes only in a step of App's success
\* handler, of logout or of the getUser eviction; every step of an
\* orchestrator, of WebcamCapture, of the fingerprint scan and of
\* ApiService leaves it as it is.
C32_OnlyAppWritesToken ==
    [][storage' # storage => TokenWriterStep]_vars

\* a process started with a persisted token that, before getUser answers,
\* captured a face, scanned a fingerprint and had an ApiService call fail,
\* with the token still persisted
C32_Witness ==
    /\ storage = "tok-1" /\ IsRegister
    /\ Truthy(faceImage) /\ Truthy(fingerprintData)
    /\ apiSettled.op # Null


\* a register request is sent in this step
RegisterSent ==
    /\ Len(submitReqs') = Len(submitReqs) + 1
    /\ submitReqs'[Len(submitReqs')].kind = "register"

\* C33: in both variants of Register, whatever advance, goBack and edits
\* came before, a register request is sent only with credentials that
\* satisfy the four rules at that moment, and it carries those credentials.
C33_RegisterSendsValidated ==
    [][RegisterSent
       => LET r == submitReqs'[Len(submitReqs')]
          IN  /\ FirstViolation(formData) = ""
              /\ r.username = formData.username
              /\ r.email = formData.email
              /\ r.password = formData.password]_vars

\* the mandatory Register, both factors recorded, has sent a request with
\* valid credentials and waits for the answer
C33_Witness ==
    /\ IsRegister /\ variant = "mandatory" /\ loading
    /\ Len(submitReqs) = 1 /\ submitReqs[1].kind = "register"
    /\ submitReqs[1].password = "password1"
    /\ submitReqs[1].email \in Emails


\* the step changes the face factor / the fingerprint factor
FaceStep == faceImage' # faceImage
FingerprintStep ==
    fingerprintData' # fingerprintData
    \/ fingerprintScanning' # fingerprintScanning

\* C34: while an orchestrator stays mounted, a step that sets or clears the
\* face factor (capture, Retake) leaves the fingerprint factor and its scan
\* as they are, and a step that sets or clears the fingerprint factor
\* (scan, scan completion, Re-scan) leaves the face factor and the
\* WebcamCapture as they are.
C34_FactorsIndependent ==
    [][SameOrchStep
       => /\ FaceStep
             => UNCHANGED <<fingerprintData, fingerprintScanning, fpTimers>>
          /\ FingerprintStep
             => UNCHANGED <<faceImage, showWebcam, cams>>]_vars

\* Register holds a fingerprint template while its face sample has been
\* cleared by Retake: the error of a failed submission is still shown
C34_Witness ==
    /\ IsRegister /\ step = 2 /\ ~loading
    /\ lastEnvelope.handled /\ ~lastEnvelope.success
    /\ ~Truthy(faceImage) /\ Truthy(fingerprintData)


\* the countdown of instance i was armed while it held its stream, and the
\* instance is still mounted
ArmedFromLive(i) == cams[i].mounted /\ cams[i].timer /\ cams[i].tstream

\* C35: a countdown armed from Live and not cancelled shows 3, 2, 1; its
\* third tick, and no other, captures and delivers one frame and clears the
\* timer; and while the countdown runs the Capture button cannot arm again.
C35_CountdownCapturesOnce ==
    [][\A i \in 1..Len(cams) :
         ArmedFromLive(i)
         => /\ cams[i].countdown = cams[i].count
            /\ cams[i].count[1] \in {3, 2, 1}
            /\ cams[i].delivered = 0
            /\ ~ENABLED handleCapture
            /\ TickOf(i)
               => IF cams[i].count[1] > 1
                  THEN /\ cams'[i].count = <<cams[i].count[1] - 1>>
                       /\ cams'[i].countdown = cams'[i].count
                       /\ cams'[i].timer
                       /\ cams'[i].delivered = 0
                       /\ faceImage' = faceImage
                  ELSE /\ cams'[i].count = <<0>>
                       /\ ~cams'[i].timer
                       /\ cams'[i].delivered = 1
                       /\ faceImage' = FrameImage]_vars

\* an instance armed from Live has counted down to zero and delivered its
\* one frame to the orchestrator
C35_Witness ==
    /\ faceImage = FrameImage
    /\ \E i \in 1..Len(cams) :
           /\ cams[i].tstream /\ cams[i].count = <<0>>
           /\ ~cams[i].timer /\ cams[i].delivered = 1


\* C36: when every request eventually returns or fails, every Submitting
\* state is eventually left.
C36_SubmittingEnds == Submitting ~> ~Submitting

\* the mandatory Register is back from Submitting after its call threw: it
\* is mounted with both factors, not loading, and shows the error's text
C36_Witness ==
    /\ IsRegister /\ variant = "mandatory" /\ ~loading
    /\ Truthy(faceImage) /\ Truthy(fingerprintData)
    /\ error = "Request failed"


\* C37 (as stated): when timers fire, every scan eventually reaches
\* Complete, with a template set and scanning = false.
C37_ScanCompletes ==
    fingerprintScanning ~> (Truthy(fingerprintData) /\ ~fingerprintScanning)

\* the scan of the mounted Register ends / its template is cleared
ScanEnds == SameOrchStep /\ fingerprintScanning /\ ~fingerprintScanning'
TemplateCleared ==
    SameOrchStep /\ Truthy(fingerprintData) /\ ~Truthy(fingerprintData')

\* C37 (amended): when timers fire, every scan eventually ends; while the
\* Register that started it stays mounted it ends only in Complete, with a
\* template set; a Register unmounted while scanning never gets one.
\* Re-scan from Complete yields Idle: no template and scanning = false.
C37_ScanEndsWhileMounted ==
    /\ fingerprintScanning ~> ~fingerprintScanning
    /\ [][ScanEnds => Truthy(fingerprintData')]_vars
    /\ [][TemplateCleared
          => (fingerprintData' = Null /\ ~fingerprintScanning'
              /\ fpTimers'[inst] = 0)]_vars

\* Register is Idle again after a Re-scan, with a scan completed earlier
\* and none pending
C37_Witness ==
    /\ IsRegister /\ step = 2 /\ ~Truthy(fingerprintData)
    /\ ~fingerprintScanning /\ fpTimers[inst] = 0
    /\ ENABLED simulateFingerprintScan


\* the answer to a health probe is handled in this step
HealthStep == healthPending' < healthPending

\* C38: handling the answer of a health probe changes nothing but
\* systemHealth: user, token, persisted token and view stay, no rejection
\* is raised; and an answer that does not set systemHealth (a failed probe)
\* leaves it as it was, unset when it was unset.
C38_HealthFailureIsSilent ==
    [][HealthStep
       => /\ UNCHANGED <<user, token, storage, view, unhandled>>
          /\ systemHealth' # "health" => systemHealth' = systemHealth]_vars

\* a process started with a persisted token whose only health probe has
\* failed: nothing is shown and the token is still held
C38_Witness ==
    /\ healthIssued = 1 /\ healthPending = 0 /\ systemHealth = Null
    /\ token = "tok-1" /\ storage = "tok-1" /\ ~unhandled

GenericFallback(kind) ==
    IF kind = "login" THEN "Login failed" ELSE "Registration failed"
RetryFallback(kind) ==
    IF kind = "login" THEN "Login failed. Please try again."
    ELSE "Registration failed. Please try again."

\* C40: the orchestrator that sent a request shows, for a failure envelope,
\* the envelope's message if it is non-empty and else its generic fallback;
\* for a thrown error, the error's message if it is non-empty and else its
\* retry fallback.
C40_ErrorTextShown ==
    [][\A k \in 1..Len(submitReqs), m \in Messages :
         LET r == submitReqs[k]
             e == RequestError(m)
         IN  OwnerMounted(r)
             => /\ SubmitFailure(k, m)
                   => error' = IF m # "" THEN m ELSE GenericFallback(r.kind)
                /\ SubmitError(k, m)
                   => error' = IF e # "" THEN e ELSE RetryFallback(r.kind)
                /\ ErrorText(r, "") = RetryFallback(r.kind)]_vars

\* Login shows its generic fallback after a failure envelope that had no
\* message
C40_Witness ==
    /\ IsLogin /\ ~loading /\ error = "Login failed"
    /\ lastEnvelope.handled /\ ~lastEnvelope.success

====
